---- MODULE Spec2Model ----
(***************************************************************************)
(* Model of src/src/SwimScore.cpp (GoldenCheetah): the swim metrics        *)
(* XPowerSwim, XPaceSwim, STP, SRI, SwimScore and the cross-discipline     *)
(* TriScore, evaluated for one activity by the metric evaluator.           *)
(*                                                                         *)
(* Representation of the C++ doubles (TLC has bounded integers only):      *)
(*   power / weighted / xpower / STP   centiwatts   (1 W    = 100)         *)
(*   secs / recIntSecs / count()       deciseconds  (1 s    = 10)          *)
(*   total (sum of cubes)              W^3, floored                        *)
(*   SRI value                         thousandths  (1.0    = 1000)        *)
(*   SwimScore / TriScore value        hundredths   (100.0  = 10000)       *)
(*   speed of swimming_speed           cm/s                                *)
(*   xPaceSwim                         1/1000 min per 100 m                *)
(*   kph, CV, weight                   whole kph / kg                      *)
(* IEEE NaN is the value NaN below; it propagates through arithmetic and   *)
(* every ordered comparison with it is false.                              *)
(***************************************************************************)
EXTENDS Integers, Sequences, FiniteSets, TLC

VARIABLES
    ride,     \* the RideFile: sport, recIntSecs, dataPoints, weight, tag "CV"
    context,  \* athlete configuration: paceZones(true), whichRange, getCV
    build,    \* "debug" (assert active) or "ndebug" (assert compiled out)
    pc,       \* position of the evaluator in Plan
    status,   \* "running" | "done" | "DependencyMissing" | "fault"
    deps,     \* result set: symbol -> [value, count] for metrics that set a value
    ran,      \* symbol -> symbols holding a value when its compute was invoked
    xp        \* locals of XPowerSwim::compute and the log of its steps

vars == <<ride, context, build, pc, status, deps, ran, xp>>

----------------------------------------------------------------------------
\* Bounds of the model

MaxSamples == 2

----------------------------------------------------------------------------
\* Numbers

NaN == -999999999

IsNaN(x) == x = NaN

\* a > b on doubles: false when either side is NaN
Gt(a, b) == ~IsNaN(a) /\ ~IsNaN(b) /\ a > b

Add(a, b) == IF IsNaN(a) \/ IsNaN(b) THEN NaN ELSE a + b

\* floor(a * b / c) for a, b >= 0 and c > 0 without leaving 32 bits
MulDiv(a, b, c) == (a \div c) * b + ((a % c) * b) \div c

\* pow(w, 3.0): w in centiwatts, result in W^3
Cube(w) == IF IsNaN(w) THEN NaN ELSE MulDiv(MulDiv(w, w, 10000), w, 100)

CbrtHi == 46340

RECURSIVE CbrtSearch(_, _, _)
CbrtSearch(lo, hi, m) ==
    IF lo >= hi THEN lo
    ELSE LET mid == (lo + hi + 1) \div 2
         IN  IF Cube(mid) <= m THEN CbrtSearch(mid, hi, m)
                               ELSE CbrtSearch(lo, mid - 1, m)

\* pow(m, 1/3.0): m in W^3 (NaN, or >= 0), result in centiwatts
CubeRoot(m) == IF IsNaN(m) THEN NaN ELSE CbrtSearch(0, CbrtHi, m)

\* total / count, count an int converted to double: 0.0/0 is NaN
MeanOfCubes(total, count) ==
    IF IsNaN(total) \/ count = 0 THEN NaN ELSE total \div count

----------------------------------------------------------------------------
\* swimming_power and swimming_speed

\* (K / ep) * pow(speed, 3) with K = 0.35*weight + 2, ep = 0.6 and
\* speed = kph/3.6:  K/ep = (7*weight + 40)/12, so in centiwatts
\* (7*weight + 40) * kph^3 * 100000 / (12 * 46656) = ... * 3125 / 17496
swimming_power(weight, kph) ==
    ((7 * weight + 40) * kph * kph * kph * 3125) \div 17496

RECURSIVE IntCbrt(_, _, _)
IntCbrt(lo, hi, m) ==
    IF lo >= hi THEN lo
    ELSE LET mid == (lo + hi + 1) \div 2
         IN  IF mid * mid * mid <= m THEN IntCbrt(mid, hi, m)
                                     ELSE IntCbrt(lo, mid - 1, m)

\* pow((ep / K) * power, 1/3.0): power in centiwatts, result in cm/s:
\* speed_cm^3 = 10^6 * (power/100) * 12 / (7*weight + 40)
swimming_speed(weight, power) ==
    IF IsNaN(power) THEN NaN
    ELSE IntCbrt(0, 1000, MulDiv(power, 120000, 7 * weight + 40))

----------------------------------------------------------------------------
\* The activity and the configuration

SportSet == {"swim", "run", "bike", "other"}

isSwim(r) == r.sport = "swim"
isRun(r)  == r.sport = "run"

RecIntSet == {-50, 0, 1, 10}
OffsetSet == {0, 3, 30}
KphSet    == {0, 7}
WeightSet == {80}

NoTag == << >>
TagSet == {NoTag, <<"4">>}

Digit(c) ==
    CASE c = "0" -> 0 [] c = "1" -> 1 [] c = "2" -> 2 [] c = "3" -> 3
      [] c = "4" -> 4 [] c = "5" -> 5 [] c = "6" -> 6 [] c = "7" -> 7
      [] c = "8" -> 8 [] c = "9" -> 9 [] OTHER -> -1

RECURSIVE ParseDigits(_, _)
ParseDigits(s, acc) ==
    IF s = << >> THEN acc
    ELSE IF Digit(Head(s)) < 0 THEN -1
    ELSE ParseDigits(Tail(s), 10 * acc + Digit(Head(s)))

\* QString::toInt(): the number, or 0 when the text is not an integer
toInt(s) ==
    IF s = << >> THEN 0
    ELSE LET n == ParseDigits(s, 0) IN IF n < 0 THEN 0 ELSE n

\* RideFile::getTag(name, default)
getTag(r, default) == IF r.tagCV = NoTag THEN default ELSE r.tagCV

Point == [secs : OffsetSet, kph : KphSet]

NonDecreasing(s) == \A i \in 1..(Len(s) - 1) : s[i].secs <= s[i + 1].secs

DataPointsSet ==
    {s \in UNION {[1..n -> Point] : n \in 0..MaxSamples} : NonDecreasing(s)}

RideSet ==
    {[sport |-> sp, recIntSecs |-> d, dataPoints |-> s, weight |-> w, tagCV |-> t] :
        sp \in SportSet, d \in RecIntSet, s \in DataPointsSet,
        w \in WeightSet, t \in TagSet}

\* paceZones(true) is a null pointer or a PaceZones; whichRange is -1 when
\* no range holds the date; getCV is the CV of the range in kph
ContextSet ==
    {[zones |-> "null", range |-> -1, cv |-> 0],
     [zones |-> "set",  range |-> -1, cv |-> 0],
     [zones |-> "set",  range |-> 0,  cv |-> 5]}

BuildSet == {"debug", "ndebug"}

----------------------------------------------------------------------------
\* Registration

SwimMetrics ==
    {"swimscore_xpower", "swimscore_xpace", "swimscore_tp", "swimscore_ri",
     "swimscore"}

\* addAllSwimScore: the dependencies given to addMetric
SwimDependencies ==
    [m \in SwimMetrics |->
        CASE m = "swimscore_xpower" -> {}
          [] m = "swimscore_tp"     -> {}
          [] m = "swimscore_xpace"  -> {"swimscore_xpower"}
          [] m = "swimscore_ri"     -> {"swimscore_xpower", "swimscore_tp"}
          [] m = "swimscore"        ->
                {"swimscore_xpower", "swimscore_tp", "swimscore_ri"}]

\* addTriScore
TriDependencies == {"swimscore", "govss", "skiba_bike_score"}

\* the metrics of the other disciplines, registered outside this file
ExternalMetrics == {"govss", "skiba_bike_score"}

Dependencies(m) ==
    IF m \in SwimMetrics THEN SwimDependencies[m]
    ELSE IF m = "triscore" THEN TriDependencies
    ELSE {}

\* the resolved plan: a topological order, registration order among
\* independent metrics
Plan ==
    <<"swimscore_xpower", "swimscore_tp", "swimscore_xpace", "swimscore_ri",
      "swimscore", "govss", "skiba_bike_score", "triscore">>

\* applicability of the metrics of the other disciplines: each applies to
\* the activities of its own discipline
ExternalRelevant(m, r) ==
    IF m = "govss" THEN isRun(r) ELSE r.sport = "bike"

\* isRelevantForRide: ride->isSwim for the five swim metrics; TriScore does
\* not override it and keeps the default, true
isRelevantForRide(m, r) ==
    IF m \in SwimMetrics THEN isSwim(r)
    ELSE IF m \in ExternalMetrics THEN ExternalRelevant(m, r)
    ELSE TRUE

----------------------------------------------------------------------------
\* XPowerSwim::compute, constants and per-step arithmetic

EPSILON == 1
NEGLIGIBLE == 10

\* With secsDelta = d/10 s: sampsPerWindow = 25.0/secsDelta = 250/d,
\* sampsPerWindow + secsDelta = (2500 + d*d)/(10*d), hence
\*   attenuation  = sampsPerWindow/(sampsPerWindow + secsDelta) = 2500/(2500 + d*d)
\*   sampleWeight = secsDelta/(sampsPerWindow + secsDelta)     = d*d/(2500 + d*d)
\* for every d # 0.  With d = 0: sampsPerWindow = 25.0/0 = +Inf,
\* attenuation = Inf/Inf = NaN and sampleWeight = 0/Inf = 0.
WindowDen(secsDelta) == 2500 + secsDelta * secsDelta

\* weighted *= attenuation
Attenuate(weighted, secsDelta) ==
    IF secsDelta = 0 \/ IsNaN(weighted) THEN NaN
    ELSE (weighted * 2500) \div WindowDen(secsDelta)

\* sampleWeight * swimming_power(weight, point->kph/3.6)
SampleTerm(weight, kph, secsDelta) ==
    IF secsDelta = 0 THEN 0
    ELSE (swimming_power(weight, kph) * secsDelta * secsDelta)
            \div WindowDen(secsDelta)

\* the loop condition with secsDelta left out of the comparison
GapRemainsNoDelta(weighted, pointSecs, lastSecs, secsDelta) ==
    /\ Gt(weighted, NEGLIGIBLE)
    /\ pointSecs > lastSecs + EPSILON

\* the loop condition without the test of weighted
GapRemainsAnyWeighted(weighted, pointSecs, lastSecs, secsDelta) ==
    pointSecs > lastSecs + secsDelta + EPSILON

\* the condition of the while loop
GapRemains(weighted, pointSecs, lastSecs, secsDelta) ==
    /\ Gt(weighted, NEGLIGIBLE)
    /\ pointSecs > lastSecs + secsDelta + EPSILON

\* the duration taken for the step count itself
EffectiveSecsCountOnly(count, secsDelta) == count

\* secs = count * secsDelta
EffectiveSecs(count, secsDelta) == count * secsDelta

XpIdle ==
    [phase |-> "idle", idx |-> 1, lastSecs |-> 0, weighted |-> 0, total |-> 0,
     count |-> 0, gapSynth |-> 0, w0 |-> 0, nSynth |-> 0, nCubes |-> 0,
     gapLog |-> << >>]

----------------------------------------------------------------------------
\* The evaluator

Current == Plan[pc]

Running == status = "running" /\ pc <= Len(Plan)

Invoke(m) == ran' = ran @@ (m :> DOMAIN deps)

Publish(m, entry) == deps' = deps @@ (m :> entry)

Init ==
    /\ ride \in RideSet
    /\ context \in ContextSet
    /\ build \in BuildSet
    /\ pc = 1
    /\ status = "running"
    /\ deps = << >>
    /\ ran = << >>
    /\ xp = XpIdle

\* a metric that is not relevant for the ride produces no value
Skip ==
    /\ Running
    /\ ~isRelevantForRide(Current, ride)
    /\ pc' = pc + 1
    /\ UNCHANGED <<ride, context, build, status, deps, ran, xp>>

\* XPowerSwim::compute up to the foreach
XPowerBegin ==
    /\ Running
    /\ Current = "swimscore_xpower"
    /\ isRelevantForRide(Current, ride)
    /\ xp.phase = "idle"
    /\ Invoke(Current)
    /\ IF ~isSwim(ride)
       THEN pc' = pc + 1 /\ xp' = [xp EXCEPT !.phase = "returned"]
       ELSE pc' = pc /\ xp' = [xp EXCEPT !.phase = "points"]
    /\ UNCHANGED <<ride, context, build, status, deps>>

\* one iteration of the while loop: a synthetic decay-only step
XPowerGapStep ==
    /\ Running
    /\ xp.phase = "points"
    /\ xp.idx <= Len(ride.dataPoints)
    /\ GapRemains(xp.weighted, ride.dataPoints[xp.idx].secs, xp.lastSecs,
                  ride.recIntSecs)
    /\ LET w == Attenuate(xp.weighted, ride.recIntSecs)
       IN  xp' = [xp EXCEPT !.weighted = w,
                            !.lastSecs = @ + ride.recIntSecs,
                            !.total = Add(@, Cube(w)),
                            !.count = @ + 1,
                            !.gapSynth = @ + 1,
                            !.nSynth = @ + 1,
                            !.nCubes = @ + 1]
    /\ UNCHANGED <<ride, context, build, pc, status, deps, ran>>

\* the rest of the foreach body: the real step of the sample
XPowerSampleStep ==
    /\ Running
    /\ xp.phase = "points"
    /\ xp.idx <= Len(ride.dataPoints)
    /\ ~GapRemains(xp.weighted, ride.dataPoints[xp.idx].secs, xp.lastSecs,
                   ride.recIntSecs)
    /\ LET point == ride.dataPoints[xp.idx]
           w == Add(Attenuate(xp.weighted, ride.recIntSecs),
                    SampleTerm(ride.weight, point.kph, ride.recIntSecs))
           entry == [idx |-> xp.idx,
                     gap |-> point.secs - (xp.lastSecs
                                - xp.gapSynth * ride.recIntSecs),
                     synth |-> xp.gapSynth,
                     w0 |-> xp.w0]
       IN  xp' = [xp EXCEPT !.weighted = w,
                            !.lastSecs = point.secs,
                            !.total = Add(@, Cube(w)),
                            !.count = @ + 1,
                            !.idx = @ + 1,
                            !.gapSynth = 0,
                            !.w0 = w,
                            !.nCubes = @ + 1,
                            !.gapLog = Append(@, entry)]
    /\ UNCHANGED <<ride, context, build, pc, status, deps, ran>>

\* after the foreach: xpower, secs, setValue, setCount
XPowerFinish ==
    /\ Running
    /\ xp.phase = "points"
    /\ xp.idx > Len(ride.dataPoints)
    /\ xp' = [xp EXCEPT !.phase = "returned"]
    /\ Publish("swimscore_xpower",
               [value |-> CubeRoot(MeanOfCubes(xp.total, xp.count)),
                count |-> EffectiveSecs(xp.count, ride.recIntSecs)])
    /\ pc' = pc + 1
    /\ UNCHANGED <<ride, context, build, status, ran>>

----------------------------------------------------------------------------
\* assert(deps.contains(...)) followed by deps.value(...)->...

GarbageSet == {0, 4242}

\* What follows a lookup of a symbol that is not in deps.  With assert
\* active the evaluation is aborted (DependencyMissing).  With NDEBUG the
\* assert is gone, deps.value() returns a null pointer and the call through
\* it is undefined: the evaluation faults, or a value read from whatever the
\* pointer leads to is published.
MissingDependency(m) ==
    IF build = "debug"
    THEN status' = "DependencyMissing" /\ pc' = pc /\ deps' = deps
    ELSE \/ status' = "fault" /\ pc' = pc /\ deps' = deps
         \/ \E g \in GarbageSet :
                status' = status /\ pc' = pc + 1 /\ Publish(m, [value |-> g])

----------------------------------------------------------------------------
\* STP::compute

\* the value of cv after lines 199-204; zoneRange is what whichRange gave
ThresholdCV(r, zones, zoneRange, cv) ==
    LET tagged == toInt(getTag(r, <<"0">>))
    IN  IF tagged = 0 /\ zones # "null" /\ zoneRange >= 0 THEN cv ELSE tagged

ComputeSTP ==
    /\ Running
    /\ Current = "swimscore_tp"
    /\ isRelevantForRide(Current, ride)
    /\ Invoke(Current)
    /\ IF ~isSwim(ride)
       THEN pc' = pc + 1 /\ UNCHANGED <<status, deps>>
       ELSE IF context.zones = "null"
       \* paceZones(true)->whichRange(...) through a null pointer is
       \* undefined: a fault, or some zoneRange is read and compute goes on
       THEN \/ status' = "fault" /\ UNCHANGED <<pc, deps>>
            \/ \E zoneRange \in {-1, 0} :
                 /\ Publish(Current,
                       [value |-> swimming_power(ride.weight,
                           ThresholdCV(ride, context.zones, zoneRange,
                                       context.cv))])
                 /\ pc' = pc + 1
                 /\ UNCHANGED status
       ELSE /\ Publish(Current,
                  [value |-> swimming_power(ride.weight,
                      ThresholdCV(ride, context.zones, context.range,
                                  context.cv))])
            /\ pc' = pc + 1
            /\ UNCHANGED status
    /\ UNCHANGED <<ride, context, build, xp>>

----------------------------------------------------------------------------
\* XPaceSwim::compute

\* speed ? (100.0/60.0) / speed : 0.0
PaceOfSpeed(speed) ==
    IF IsNaN(speed) THEN NaN
    ELSE IF speed = 0 THEN 0
    ELSE 166667 \div speed

ComputeXPaceSwim ==
    /\ Running
    /\ Current = "swimscore_xpace"
    /\ isRelevantForRide(Current, ride)
    /\ Invoke(Current)
    /\ IF ~isSwim(ride)
       THEN pc' = pc + 1 /\ UNCHANGED <<status, deps>>
       ELSE IF "swimscore_xpower" \notin DOMAIN deps
       THEN MissingDependency(Current)
       ELSE /\ Publish(Current,
                  [value |-> PaceOfSpeed(swimming_speed(ride.weight,
                                 deps["swimscore_xpower"].value))])
            /\ pc' = pc + 1
            /\ UNCHANGED status
    /\ UNCHANGED <<ride, context, build, xp>>

----------------------------------------------------------------------------
\* SRI::compute

\* the ratio without the test of stp: x/0 is +Inf or NaN, not a number
RelativeIntensityNoGuard(xpower, stp) ==
    IF IsNaN(xpower) \/ stp = 0 THEN NaN
    ELSE (xpower * 1000) \div stp

\* stp->value(true) ? xPowerSwim->value(true) / stp->value(true) : 0
RelativeIntensity(xpower, stp) ==
    IF stp = 0 THEN 0
    ELSE IF IsNaN(xpower) THEN NaN
    ELSE (xpower * 1000) \div stp

ComputeSRI ==
    /\ Running
    /\ Current = "swimscore_ri"
    /\ isRelevantForRide(Current, ride)
    /\ Invoke(Current)
    /\ IF ~isSwim(ride)
       THEN pc' = pc + 1 /\ UNCHANGED <<status, deps>>
       ELSE IF ~({"swimscore_xpower", "swimscore_tp"} \subseteq DOMAIN deps)
       THEN MissingDependency(Current)
       ELSE /\ Publish(Current,
                  [value |-> RelativeIntensity(deps["swimscore_xpower"].value,
                                               deps["swimscore_tp"].value),
                   count |-> deps["swimscore_xpower"].count])
            /\ pc' = pc + 1
            /\ UNCHANGED status
    /\ UNCHANGED <<ride, context, build, xp>>

----------------------------------------------------------------------------
\* SwimScore::compute

\* the work taken for the power itself, the duration forgotten
NormWorkNoSecs(xpower, secs) == xpower

\* xPowerSwim->value(true) * xPowerSwim->count()
NormWork(xpower, secs) == IF IsNaN(xpower) THEN NaN ELSE xpower * secs

\* normWork * sri->value(true)
RawGOVSS(normWork, sri) ==
    IF IsNaN(normWork) \/ IsNaN(sri) THEN NaN ELSE MulDiv(normWork, sri, 1000)

\* stp->value(true) * 3600
WorkInAnHourAtSTP(stp) == stp * 36000

\* workInAnHourAtSTP ? rawGOVSS / workInAnHourAtSTP * 100.0 : 0, in
\* hundredths: rawGOVSS * 10000 / (stp * 36000) = rawGOVSS * 5 / (stp * 18)
ScoreOf(rawGOVSS, stp) ==
    IF WorkInAnHourAtSTP(stp) = 0 THEN 0
    ELSE IF IsNaN(rawGOVSS) THEN NaN
    ELSE MulDiv(rawGOVSS, 5, stp * 18)

ComputeSwimScore ==
    /\ Running
    /\ Current = "swimscore"
    /\ isRelevantForRide(Current, ride)
    /\ Invoke(Current)
    /\ IF ~isSwim(ride)
       THEN pc' = pc + 1 /\ UNCHANGED <<status, deps>>
       ELSE IF ~({"swimscore_xpower", "swimscore_ri", "swimscore_tp"}
                    \subseteq DOMAIN deps)
       THEN MissingDependency(Current)
       ELSE /\ Publish(Current,
                  [value |-> ScoreOf(
                      RawGOVSS(NormWork(deps["swimscore_xpower"].value,
                                        deps["swimscore_xpower"].count),
                               deps["swimscore_ri"].value),
                      deps["swimscore_tp"].value)])
            /\ pc' = pc + 1
            /\ UNCHANGED status
    /\ UNCHANGED <<ride, context, build, xp>>

----------------------------------------------------------------------------
\* the composite scores of the other disciplines (GOVSS, BikeScore)

ExternalScoreSet == {0, 5000}

ComputeExternal ==
    /\ Running
    /\ Current \in ExternalMetrics
    /\ isRelevantForRide(Current, ride)
    /\ Invoke(Current)
    /\ \E v \in ExternalScoreSet : Publish(Current, [value |-> v])
    /\ pc' = pc + 1
    /\ UNCHANGED <<ride, context, build, status, xp>>

----------------------------------------------------------------------------
\* TriScore::compute

\* the symbol the if / else if / else chain reads
Selected(r) ==
    IF isSwim(r) THEN "swimscore"
    ELSE IF isRun(r) THEN "govss"
    ELSE "skiba_bike_score"

ComputeTriScore ==
    /\ Running
    /\ Current = "triscore"
    /\ isRelevantForRide(Current, ride)
    /\ Invoke(Current)
    /\ IF Selected(ride) \notin DOMAIN deps
       THEN MissingDependency(Current)
       ELSE /\ Publish(Current, [value |-> deps[Selected(ride)].value])
            /\ pc' = pc + 1
            /\ UNCHANGED status
    /\ UNCHANGED <<ride, context, build, xp>>

\* the plan is exhausted: the result set is complete
Finish ==
    /\ status = "running"
    /\ pc > Len(Plan)
    /\ status' = "done"
    /\ UNCHANGED <<ride, context, build, pc, deps, ran, xp>>

Next ==
    \/ Skip
    \/ XPowerBegin
    \/ XPowerGapStep
    \/ XPowerSampleStep
    \/ XPowerFinish
    \/ ComputeSTP
    \/ ComputeXPaceSwim
    \/ ComputeSRI
    \/ ComputeSwimScore
    \/ ComputeExternal
    \/ ComputeTriScore
    \/ Finish

Spec == Init /\ [][Next]_vars

\* the evaluation is sequential and runs without suspension: a step that
\* can be taken is taken
FairSpec == Spec /\ WF_vars(Next)

----------------------------------------------------------------------------
\* The derived metrics over estimator and threshold values of any size:
\* the state after XPowerSwim and STP have published, for a swim activity
\* long enough to last an hour

DerivedXPowerSet == {NaN, 0, 5000, 6858, 13395}
DerivedSecsSet   == {0, 18000, 36000}
DerivedSTPSet    == {0, 6858, 13395}

InitDerived ==
    /\ ride \in {r \in RideSet : isSwim(r) /\ r.dataPoints = << >>
                                  /\ r.recIntSecs = 10}
    /\ context \in {c \in ContextSet : c.zones = "set"}
    /\ build \in BuildSet
    /\ pc = 3
    /\ status = "running"
    /\ \E x \in DerivedXPowerSet, n \in DerivedSecsSet, t \in DerivedSTPSet :
          deps = ("swimscore_xpower" :> [value |-> x, count |-> n])
                    @@ ("swimscore_tp" :> [value |-> t])
    /\ ran = ("swimscore_xpower" :> {})
                @@ ("swimscore_tp" :> {"swimscore_xpower"})
    /\ xp = [XpIdle EXCEPT !.phase = "returned"]

NextDerived ==
    \/ Skip
    \/ ComputeXPaceSwim
    \/ ComputeSRI
    \/ ComputeSwimScore
    \/ ComputeTriScore
    \/ Finish

SpecDerived == InitDerived /\ [][NextDerived]_vars

----------------------------------------------------------------------------
\* Properties

Valued(m) == m \in DOMAIN deps

\* the compute function of m was invoked and has returned or failed
Ended(m) ==
    /\ m \in DOMAIN ran
    /\ (status # "running" \/ pc > Len(Plan) \/ Plan[pc] # m)

\* C1: whenever the compute function of a registered metric was invoked,
\* every dependency symbol declared for it at registration had a value in
\* the result set; a metric for which that is not so is never invoked.
DependenciesValuedBeforeCompute ==
    \A m \in DOMAIN ran : Dependencies(m) \subseteq ran[m]

\* C2: on an activity that is not a swim, the five swim metrics are not
\* relevant and are absent from the result set; on a swim, each of the five
\* has a value once its compute function has ended.
SwimMetricsFollowDiscipline ==
    \A m \in SwimMetrics :
        /\ ~isSwim(ride) => ~isRelevantForRide(m, ride) /\ ~Valued(m)
        /\ isSwim(ride) /\ Ended(m) => Valued(m)

\* C3: on a swim with zero samples or a non-positive nominal interval,
\* XPowerSwim::compute publishes value 0 and duration 0 (no NaN from
\* total/count or from 25/secsDelta).
DegenerateInputFallback ==
    (/\ isSwim(ride)
     /\ Ended("swimscore_xpower")
     /\ (Len(ride.dataPoints) = 0 \/ ride.recIntSecs <= 0))
    => /\ Valued("swimscore_xpower")
       /\ deps["swimscore_xpower"].value = 0
       /\ deps["swimscore_xpower"].count = 0

\* a real step of a sample that follows another sample at exactly three
\* nominal intervals, the interval being positive
GapOfThree(e) ==
    e.idx > 1 /\ ride.recIntSecs > 0 /\ e.gap = 3 * ride.recIntSecs

\* C4 as stated: a gap of exactly 3 nominal intervals between two
\* consecutive samples inserts exactly 2 synthetic steps before the second
\* sample's real step, whatever weighted is when the gap starts.
GapOfThreeInsertsTwo ==
    \A i \in 1..Len(xp.gapLog) :
        GapOfThree(xp.gapLog[i]) => xp.gapLog[i].synth = 2

\* C4 amended: a gap of exactly 3 nominal intervals inserts exactly 2
\* synthetic steps when the nominal interval exceeds the tolerance EPSILON
\* and weighted is still above NEGLIGIBLE after the first synthetic step;
\* in every other case fewer than 2 are inserted.
GapOfThreeInsertsTwoWhileWeighted ==
    \A i \in 1..Len(xp.gapLog) :
        LET e == xp.gapLog[i]
        IN  GapOfThree(e) =>
              IF /\ ride.recIntSecs > EPSILON
                 /\ Gt(Attenuate(e.w0, ride.recIntSecs), NEGLIGIBLE)
              THEN e.synth = 2
              ELSE e.synth < 2

GapOfThreeWitness ==
    \E i \in 1..Len(xp.gapLog) :
        /\ GapOfThree(xp.gapLog[i])
        /\ ride.recIntSecs > EPSILON
        /\ xp.gapLog[i].synth = 2

\* C5: on a swim, when swimscore_tp has value 0, swimscore_ri and swimscore
\* have value 0 whatever the estimator value and duration are, and both are
\* published when the evaluation is done.
ZeroThresholdZeroScores ==
    (isSwim(ride) /\ Valued("swimscore_tp") /\ deps["swimscore_tp"].value = 0)
    => /\ Valued("swimscore_ri") => deps["swimscore_ri"].value = 0
       /\ Valued("swimscore") => deps["swimscore"].value = 0
       /\ status = "done" => Valued("swimscore_ri") /\ Valued("swimscore")

ZeroThresholdWitness ==
    /\ isSwim(ride)
    /\ status = "done"
    /\ deps["swimscore_tp"].value = 0
    /\ Gt(deps["swimscore_xpower"].value, 0)
    /\ deps["swimscore_xpower"].count > 0
    /\ deps["swimscore_ri"].value = 0
    /\ deps["swimscore"].value = 0

\* the estimator value equals the threshold power and the effective
\* duration is 3600 s
HourAtThreshold ==
    /\ isSwim(ride)
    /\ Valued("swimscore")
    /\ deps["swimscore_xpower"].value = deps["swimscore_tp"].value
    /\ deps["swimscore_xpower"].count = 36000

\* C6 as stated: swimscore is 100 whenever the estimator value equals the
\* threshold power and the effective duration is 3600 s.
HourAtThresholdScoresHundred ==
    HourAtThreshold => deps["swimscore"].value = 10000

\* C6 amended: swimscore is 100 whenever the estimator value equals a
\* non-zero threshold power and the effective duration is 3600 s; when both
\* are 0 the score is 0.
HourAtNonZeroThresholdScoresHundred ==
    HourAtThreshold =>
        deps["swimscore"].value =
            IF deps["swimscore_tp"].value = 0 THEN 0 ELSE 10000

HourAtThresholdWitness ==
    /\ HourAtThreshold
    /\ deps["swimscore_tp"].value > 0
    /\ deps["swimscore"].value = 10000

\* the speed C7 says STP uses: the tag when present, else the CV of the
\* date range when pace zones exist and a range holds the date, else 0
ClaimedCV ==
    IF ride.tagCV # NoTag THEN toInt(ride.tagCV)
    ELSE IF context.zones # "null" /\ context.range >= 0 THEN context.cv
    ELSE 0

\* C7: on a swim, STP::compute never fails and publishes the drag-model
\* power of the tag's speed if the tag is present, else of the configured
\* speed of the date range, else 0, for every combination of tag, pace-zone
\* configuration (null included) and date range.
ThresholdNeverFails ==
    (isSwim(ride) /\ Ended("swimscore_tp"))
    => /\ status # "fault"
       /\ Valued("swimscore_tp")
       /\ deps["swimscore_tp"].value = swimming_power(ride.weight, ClaimedCV)

\* C8: TriScore::compute publishes under triscore the value of the metric
\* of the activity's discipline; when that value is not among the computed
\* dependencies it signals DependencyMissing and publishes nothing.
TriScoreRepublishesOrSignals ==
    Ended("triscore") =>
        IF Selected(ride) \in ran["triscore"]
        THEN /\ Valued("triscore")
             /\ deps["triscore"].value = deps[Selected(ride)].value
        ELSE /\ status = "DependencyMissing"
             /\ ~Valued("triscore")

\* a synthetic step and a real step, seen from outside the action
SyntheticStepTaken == xp'.nSynth = xp.nSynth + 1
RealStepTaken == Len(xp'.gapLog) = Len(xp.gapLog) + 1

\* C9: the gap-fill loop terminates (XPowerSwim::compute, once in the
\* foreach, returns); a synthetic step is taken only while weighted is above
\* NEGLIGIBLE and the remaining gap exceeds the interval plus EPSILON, it
\* only attenuates weighted and advances lastSecs by one interval, and the
\* real step follows as soon as either condition fails.
GapFillTerminates ==
    /\ (xp.phase = "points") ~> (xp.phase = "returned")
    /\ [][/\ SyntheticStepTaken =>
                /\ Gt(xp.weighted, NEGLIGIBLE)
                /\ ride.dataPoints[xp.idx].secs
                      > xp.lastSecs + ride.recIntSecs + EPSILON
                /\ xp.idx > 1
                /\ xp'.idx = xp.idx
                /\ xp'.lastSecs = xp.lastSecs + ride.recIntSecs
                /\ xp'.weighted <= xp.weighted
                /\ xp'.weighted = (xp.weighted * 2500)
                                     \div (2500 + ride.recIntSecs * ride.recIntSecs)
          /\ RealStepTaken =>
                \/ ~Gt(xp.weighted, NEGLIGIBLE)
                \/ ride.dataPoints[xp.idx].secs
                      <= xp.lastSecs + ride.recIntSecs + EPSILON]_vars

GapFillWitness ==
    /\ xp.phase = "returned"
    /\ xp.nSynth >= 2
    /\ ride.recIntSecs < 0

\* C10: once XPowerSwim has published, the step count is the number of
\* samples plus the number of synthetic steps, one cube was accumulated per
\* counted step, the published duration is the step count times the nominal
\* interval, and swimscore_ri republishes that duration as its count.
StepCountAndDuration ==
    (isSwim(ride) /\ Valued("swimscore_xpower"))
    => /\ xp.count = Len(ride.dataPoints) + xp.nSynth
       /\ xp.nCubes = xp.count
       /\ deps["swimscore_xpower"].count = xp.count * ride.recIntSecs
       /\ Valued("swimscore_ri") =>
             deps["swimscore_ri"].count = deps["swimscore_xpower"].count
       /\ status = "done" => Valued("swimscore_ri")

StepCountWitness ==
    /\ isSwim(ride)
    /\ Valued("swimscore_ri")
    /\ xp.nSynth > 0
    /\ Len(ride.dataPoints) = 2
    /\ deps["swimscore_ri"].count = (2 + xp.nSynth) * ride.recIntSecs
    /\ ride.recIntSecs > 0

====
